---------------------------- MODULE Spec2Model ----------------------------
(***************************************************************************)
(* A model of backend/resume_improv_lib/generator.py (src/old_generator.py) *)
(*                                                                         *)
(* Python values are tagged records [t |-> tag, v |-> payload]:            *)
(*   none, bool, int, str (a sequence of one-character strings),           *)
(*   list and tuple (a sequence of values), dict (a sequence of            *)
(*   <<key, value>> pairs in insertion order, keys unique).                *)
(* The character "*" stands for the bullet U+2022 of the separator.        *)
(***************************************************************************)
EXTENDS Integers, Sequences, FiniteSets, TLC

VARIABLES
    llm_client,     \* the oracle: the set of values llm_call may return
    analysis,       \* argument `analysis` of generate_resume_improvements
    resume_text,    \* argument `resume_text` of generate_resume_improvements
    suggestions,    \* the list `suggestions` being built and returned
    pc,             \* position in generate_resume_improvements
    sec,            \* number of the section block being run (1..9)
    idx,            \* loop index of the running handler (1-based)
    slot,           \* flag check of the loop body about to run (0: loop head)
    applied,        \* local `applied` of _process_simple_list_section
    calls,          \* history: every llm_call made, in order
    invoked,        \* history: the section blocks whose handler was called
    entry,          \* argument of _combine_entry_text (flattener runs)
    flat,           \* its result
    keys,           \* argument `keys` of the resolver functions (resolver runs)
    got_items,      \* result of _get_items
    got_issues      \* result of _get_section_issues

vars == <<llm_client, analysis, resume_text, suggestions, pc, sec, idx, slot,
          applied, calls, invoked, entry, flat, keys, got_items, got_issues>>

-----------------------------------------------------------------------------
(* Python values *)

NoneV == [t |-> "none", v |-> 0]
BoolV(b) == [t |-> "bool", v |-> b]
IntV(n) == [t |-> "int", v |-> n]
StrV(s) == [t |-> "str", v |-> s]
ListV(xs) == [t |-> "list", v |-> xs]
TupleV(xs) == [t |-> "tuple", v |-> xs]
DictV(kvs) == [t |-> "dict", v |-> kvs]

IsStr(x) == x.t = "str"
IsList(x) == x.t = "list"
IsDict(x) == x.t = "dict"

\* Python truthiness: bool(x)
Truthy(x) ==
    CASE x.t = "none" -> FALSE
      [] x.t = "bool" -> x.v
      [] x.t = "int" -> x.v # 0
      [] OTHER -> Len(x.v) > 0

\* k in d
HasKey(d, k) == \E i \in 1..Len(d.v) : d.v[i][1] = k

\* d.get(k)
Get(d, k) ==
    IF HasKey(d, k)
    THEN d.v[CHOOSE i \in 1..Len(d.v) : d.v[i][1] = k][2]
    ELSE NoneV

-----------------------------------------------------------------------------
(* Python string operations, on sequences of characters *)

IsSpace(c) == c = " "

LowerChar(c) ==
    CASE c = "A" -> "a"
      [] c = "B" -> "b"
      [] OTHER -> c

\* s.lower()
Lower(s) == [i \in 1..Len(s) |-> LowerChar(s[i])]

RECURSIVE LStrip(_)
LStrip(s) == IF s # <<>> /\ IsSpace(Head(s)) THEN LStrip(Tail(s)) ELSE s

RECURSIVE RStrip(_)
RStrip(s) ==
    IF s # <<>> /\ IsSpace(s[Len(s)]) THEN RStrip(SubSeq(s, 1, Len(s) - 1)) ELSE s

\* s.strip()
Strip(s) == RStrip(LStrip(s))

\* sep.join(parts), parts a sequence of strings
RECURSIVE Join(_, _)
Join(sep, parts) ==
    IF parts = <<>> THEN <<>>
    ELSE IF Len(parts) = 1 THEN parts[1]
    ELSE parts[1] \o sep \o Join(sep, Tail(parts))

\* [x for x in xs if isinstance(x, str)], as a sequence of strings
RECURSIVE StrElems(_)
StrElems(xs) ==
    IF xs = <<>> THEN <<>>
    ELSE (IF IsStr(Head(xs)) THEN <<Head(xs).v>> ELSE <<>>) \o StrElems(Tail(xs))

\* [p for p in parts if p.strip()]
RECURSIVE NonBlank(_)
NonBlank(parts) ==
    IF parts = <<>> THEN <<>>
    ELSE (IF Strip(Head(parts)) # <<>> THEN <<Head(parts)>> ELSE <<>>)
         \o NonBlank(Tail(parts))

BULLET_SEP == <<" ", "*", " ">>
COMMA_SEP == <<",", " ">>


-----------------------------------------------------------------------------
(* _append_if_changed *)

\* The ResumeSuggestion built at lines 24-29
ResumeSuggestion(section, issue, original, improved) ==
    [section |-> section, issue |-> issue,
     original_text |-> original, improved_text |-> improved]

\* (original or "").strip().lower(); `original` is a string at every call site
OrigNorm(original) == Lower(Strip(original))

\* improved.strip().lower()
ImpNorm(improved) == Lower(Strip(improved.v))

\* Mutant of Changed: the answer is compared with the original as written,
\* not normalised
ChangedRaw(original, improved) ==
    /\ Truthy(improved)
    /\ ImpNorm(improved) # <<>>
    /\ improved.v # original

\* Whether _append_if_changed appends: `improved` is a Python value (the
\* oracle's answer), `original` a string.
Changed(original, improved) ==
    /\ Truthy(improved)
    /\ ImpNorm(improved) # <<>>
    /\ ImpNorm(improved) # OrigNorm(original)

\* The list `out` after _append_if_changed(out, section, issue, original, improved)
append_if_changed(out, section, issue, original, improved) ==
    IF Changed(original, improved)
    THEN Append(out, ResumeSuggestion(section, issue, original, improved.v))
    ELSE out

-----------------------------------------------------------------------------
(* _combine_entry_text *)

PRIORITY_FIELDS == <<"description", "details", "summary", "line", "text">>

\* Whether entry.get(key) is a string with val.strip() non-empty
Preferred(d, key) == IsStr(Get(d, key)) /\ Strip(Get(d, key).v) # <<>>

\* The loop of lines 48-51 from position i: <<val.strip()>> for the first
\* preferred field, <<>> when the loop ends without returning
RECURSIVE FirstPreferred(_, _)
FirstPreferred(d, i) ==
    IF i > Len(PRIORITY_FIELDS) THEN <<>>
    ELSE IF Preferred(d, PRIORITY_FIELDS[i])
         THEN <<Strip(Get(d, PRIORITY_FIELDS[i]).v)>>
         ELSE FirstPreferred(d, i + 1)

\* Mutant of BulletsUsed: an empty bullets list is joined too
BulletsAnyList(bullets) == IsList(bullets)

\* The condition of line 55: isinstance(bullets, list) and bullets
BulletsUsed(bullets) == IsList(bullets) /\ Truthy(bullets)

\* Lines 59-64: the `parts` collected from the pairs kvs of the mapping
RECURSIVE LastResortParts(_)
LastResortParts(kvs) ==
    IF kvs = <<>> THEN <<>>
    ELSE LET val == Head(kvs)[2]
         IN  (CASE IsStr(val) -> <<val.v>>
                [] val.t \in {"list", "tuple"} -> StrElems(val.v)
                [] OTHER -> <<>>)
             \o LastResortParts(Tail(kvs))

CombineDict(d) ==
    IF FirstPreferred(d, 1) # <<>> THEN FirstPreferred(d, 1)[1]
    ELSE IF BulletsUsed(Get(d, "bullets"))
         THEN Join(BULLET_SEP, StrElems(Get(d, "bullets").v))
         ELSE Join(BULLET_SEP, NonBlank(LastResortParts(d.v)))

combine_entry_text(e) ==
    CASE e.t = "none" -> <<>>
      [] e.t = "str" -> e.v
      [] e.t = "dict" -> CombineDict(e)
      [] e.t = "list" -> Join(BULLET_SEP, StrElems(e.v))
      [] OTHER -> <<>>

-----------------------------------------------------------------------------
(* Section Resolver: _get_items, _get_section_issues and the alias lists *)

\* Lines 76-80 from position i of keys; the result is the Python list's elements
RECURSIVE GetItemsFrom(_, _, _)
GetItemsFrom(resume, ks, i) ==
    IF i > Len(ks) THEN <<>>
    ELSE IF IsList(Get(resume, ks[i])) THEN Get(resume, ks[i]).v
         ELSE GetItemsFrom(resume, ks, i + 1)

get_items(resume, ks) == GetItemsFrom(resume, ks, 1)

\* Mutant of GetIssuesFrom: a key that holds None is passed over
RECURSIVE GetIssuesSkipNone(_, _, _)
GetIssuesSkipNone(an, ks, i) ==
    IF i > Len(ks) THEN NoneV
    ELSE IF Get(an, ks[i]) # NoneV THEN Get(an, ks[i])
         ELSE GetIssuesSkipNone(an, ks, i + 1)

\* Lines 88-91 from position i of keys; the result is a Python value
RECURSIVE GetIssuesFrom(_, _, _)
GetIssuesFrom(an, ks, i) ==
    IF i > Len(ks) THEN NoneV
    ELSE IF HasKey(an, ks[i]) THEN Get(an, ks[i])
         ELSE GetIssuesFrom(an, ks, i + 1)

get_section_issues(an, ks) == GetIssuesFrom(an, ks, 1)

EXPERIENCE_KEYS == <<"experience", "work_experience", "work", "professional_experience">>
INTERNSHIP_KEYS == <<"internships", "internship">>
EDUCATION_KEYS == <<"education", "educations">>
AWARDS_KEYS == <<"awards_achievements", "awards", "achievements", "honors">>
POR_KEYS == <<"positions_of_responsibility", "leadership", "por">>
CO_CURR_KEYS == <<"co_curricular", "co_curricular_activities", "cocurricular">>
EXTRA_CURR_KEYS == <<"extra_curricular", "extracurricular", "extracurricular_activities">>
SKILLS_KEYS == <<"skills">>
SUMMARY_KEYS == <<"summary", "objective", "profile">>

-----------------------------------------------------------------------------
(* The nine section blocks of generate_resume_improvements, in code order *)

SECTIONS == <<
    [label |-> "experience", keys |-> EXPERIENCE_KEYS, kind |-> "exp",
     generic |-> ""],
    [label |-> "internships", keys |-> INTERNSHIP_KEYS, kind |-> "exp",
     generic |-> ""],
    [label |-> "education", keys |-> EDUCATION_KEYS, kind |-> "edu",
     generic |-> ""],
    [label |-> "awards_achievements", keys |-> AWARDS_KEYS, kind |-> "simple",
     generic |-> "Rewrite as crisp, impact-focused bullets; keep titles and recognition clear"],
    [label |-> "positions_of_responsibility", keys |-> POR_KEYS, kind |-> "simple",
     generic |-> "Emphasize leadership, scope, and outcomes; keep bullets concise and achievement-focused"],
    [label |-> "co_curricular", keys |-> CO_CURR_KEYS, kind |-> "simple",
     generic |-> "Refine to concise bullets showing relevance and impact; avoid fluff"],
    [label |-> "extra_curricular", keys |-> EXTRA_CURR_KEYS, kind |-> "simple",
     generic |-> "Highlight leadership, scale, achievements; keep it to tight resume bullets"],
    [label |-> "skills", keys |-> SKILLS_KEYS, kind |-> "skills", generic |-> ""],
    [label |-> "summary", keys |-> SUMMARY_KEYS, kind |-> "summary", generic |-> ""] >>

\* Mutant of EXP_CHECKS: the wordiness check is made before the verbs check
EXP_CHECKS_Swapped == <<
    [flags |-> {"no_metrics", "missing_metrics"},
     instr |-> "Add measurable impact and metrics without inventing facts",
     label |-> "No measurable impact"],
    [flags |-> {"too_wordy", "too_long"},
     instr |-> "Make this a concise one-line resume bullet",
     label |-> "Too wordy"],
    [flags |-> {"responsibility_over_achievement"},
     instr |-> "Rewrite as an achievement with outcome and scale",
     label |-> "Not achievement-oriented"],
    [flags |-> {"weak_action_verbs"},
     instr |-> "Strengthen action verbs; start with a strong verb",
     label |-> "Weak action verbs"],
    [flags |-> {"missing_keywords"},
     instr |-> "Include job-relevant keywords naturally if present in input",
     label |-> "Missing keywords"] >>

\* The flag checks of one loop body, in code order: the flags tested with `or`,
\* the instruction given to llm_call and the issue label of the suggestion
EXP_CHECKS == <<
    [flags |-> {"no_metrics", "missing_metrics"},
     instr |-> "Add measurable impact and metrics without inventing facts",
     label |-> "No measurable impact"],
    [flags |-> {"weak_action_verbs"},
     instr |-> "Strengthen action verbs; start with a strong verb",
     label |-> "Weak action verbs"],
    [flags |-> {"responsibility_over_achievement"},
     instr |-> "Rewrite as an achievement with outcome and scale",
     label |-> "Not achievement-oriented"],
    [flags |-> {"too_wordy", "too_long"},
     instr |-> "Make this a concise one-line resume bullet",
     label |-> "Too wordy"],
    [flags |-> {"missing_keywords"},
     instr |-> "Include job-relevant keywords naturally if present in input",
     label |-> "Missing keywords"] >>

EDU_CHECKS == <<
    [flags |-> {"too_generic"},
     instr |-> "Rewrite as a clean one-line education entry: Degree, Major - Institute, Location - Dates. Include GPA/CGPA and honors only if present in input. Do not invent.",
     label |-> "Too generic"],
    [flags |-> {"missing_dates"},
     instr |-> "Standardize dates to MMM YYYY or YYYY range if present; keep concise; do not fabricate.",
     label |-> "Missing dates"],
    [flags |-> {"missing_gpa"},
     instr |-> "If GPA/CGPA is present in the input, include it in a standard format; otherwise omit.",
     label |-> "GPA/CGPA formatting"],
    [flags |-> {"too_wordy", "too_long"},
     instr |-> "Make this a single concise line focusing on degree, institute, location, dates (and GPA if present).",
     label |-> "Too wordy"] >>

EDU_BLOCK_INSTR == "Polish education entries to one-line standardized format: Degree, Major - Institute, Location - Dates - GPA/CGPA (if present). Do not invent any data."

\* The two flag checks of _process_simple_list_section; the first one's
\* instruction is the caller's generic_instruction
SIMPLE_CHECKS(generic) == <<
    [flags |-> {"too_generic", "missing_impact"},
     instr |-> generic,
     label |-> "Too generic"],
    [flags |-> {"too_wordy", "too_long"},
     instr |-> "Make this concise, single resume bullet",
     label |-> "Too wordy"] >>

SUMMARY_CHECKS == <<
    [flags |-> {"too_generic"},
     instr |-> "Make summary specific and tailored to the target role",
     label |-> "Summary too generic"],
    [flags |-> {"too_long"},
     instr |-> "Make summary concise (2-3 lines)",
     label |-> "Summary too long"],
    [flags |-> {"missing_keywords"},
     instr |-> "Include job-relevant keywords naturally if present in input",
     label |-> "Missing keywords"] >>

SKILLS_INSTR == "Cluster by category (e.g., Languages, Frameworks, Tools) and include proficiency levels only if present in input. Keep it concise."

\* d.get(f1) or d.get(f2) ..., as a condition
AnyFlag(d, flags) == \E f \in flags : Truthy(Get(d, f))

\* What the running block resolved: exp_items / exp_issues and the like
CurItems == get_items(resume_text, SECTIONS[sec].keys)
CurIssues == get_section_issues(analysis, SECTIONS[sec].keys)

\* _combine_entry_text(items[idx] if idx < len(items) else ""), idx 1-based here
Original(items, i) ==
    combine_entry_text(IF i <= Len(items) THEN items[i] ELSE StrV(<<>>))

\* BULLET_SEP.join([_combine_entry_text(x) for x in items])
Block(items) == Join(BULLET_SEP, [i \in 1..Len(items) |-> combine_entry_text(items[i])])

\* improved = llm_call(llm_client, text, instr) answering r, followed by
\* _append_if_changed(suggestions, section, label, original, improved)
\* (item: the loop index, 0 for a call that is not made in an item loop)
LlmStep(section, label, item, text, original, instr, r) ==
    /\ calls' = Append(calls, [sec |-> sec, idx |-> item, slot |-> slot,
                               issue |-> label, text |-> text,
                               instruction |-> instr, result |-> r])
    /\ suggestions' = append_if_changed(suggestions, section, label, original, r)

-----------------------------------------------------------------------------
(* generate_resume_improvements *)

Goto(p, s, i, k, a) ==
    /\ pc' = p
    /\ sec' = s
    /\ idx' = i
    /\ slot' = k
    /\ applied' = a

\* The handler returns: on to the next block of generate_resume_improvements
Leave == Goto("dispatch", sec + 1, 1, 0, FALSE)

NoCall == UNCHANGED <<calls, suggestions>>

Fixed == UNCHANGED <<llm_client, analysis, resume_text, entry, flat, keys,
                     got_items, got_issues>>

\* Mutant of EmptyInput: only the analysis is tested
EmptyInputAnalysisOnly(an, resume) == ~Truthy(an)

\* Line 315: not analysis or not resume_text
EmptyInput(an, resume) == ~Truthy(an) \/ ~Truthy(resume)

\* Lines 313-316: the early return with the empty list
Enter ==
    /\ pc = "enter"
    /\ IF EmptyInput(analysis, resume_text)
       THEN Goto("done", sec, idx, slot, applied)
       ELSE Goto("dispatch", 1, 1, 0, FALSE)
    /\ NoCall
    /\ UNCHANGED invoked
    /\ Fixed

\* Mutant of Handles: the issue lookup is not tested
HandlesItemsOnly(items, issues) == items # <<>>

\* Lines 321, 327, ...: `if exp_items and exp_issues is not None`
Handles(items, issues) == items # <<>> /\ issues # NoneV

\* Lines 318-386: one of the seven blocks of the list-shaped sections
DispatchList ==
    /\ pc = "dispatch"
    /\ sec \in 1..7
    /\ IF Handles(CurItems, CurIssues)
       THEN /\ Goto(SECTIONS[sec].kind, sec, 1, 0, FALSE)
            /\ invoked' = invoked \cup {sec}
       ELSE /\ Leave
            /\ UNCHANGED invoked
    /\ NoCall
    /\ Fixed

\* Lines 388-391
DispatchSkills ==
    /\ pc = "dispatch"
    /\ sec = 8
    /\ IF CurIssues # NoneV
       THEN /\ Goto("skills", sec, 1, 0, FALSE)
            /\ invoked' = invoked \cup {sec}
       ELSE /\ Leave
            /\ UNCHANGED invoked
    /\ NoCall
    /\ Fixed

\* Lines 393-396
DispatchSummary ==
    /\ pc = "dispatch"
    /\ sec = 9
    /\ IF CurIssues # NoneV
       THEN /\ Goto("summary", sec, 1, 0, FALSE)
            /\ invoked' = invoked \cup {sec}
       ELSE /\ Leave
            /\ UNCHANGED invoked
    /\ NoCall
    /\ Fixed

\* Line 398
Return ==
    /\ pc = "dispatch"
    /\ sec = Len(SECTIONS) + 1
    /\ Goto("done", sec, idx, slot, applied)
    /\ NoCall
    /\ UNCHANGED invoked
    /\ Fixed

-----------------------------------------------------------------------------
(* The per-item loops of the three list handlers *)

\* Mutant of Skipped: an empty flattened text is not skipped
SkippedNonDictOnly(items, issues, i) == ~IsDict(issues[i])

\* Lines 122-126, 165-169, 207-211: whether index i of `issues` is skipped
\* (`continue`) before any flag is looked at
Skipped(items, issues, i) ==
    \/ ~IsDict(issues[i])
    \/ Original(items, i) = <<>>

\* The head of `for idx, issue_dict in enumerate(issues)`; issues is a list
ItemLoop ==
    IF idx > Len(CurIssues.v) THEN Leave
    ELSE IF Skipped(CurItems, CurIssues.v, idx)
         THEN Goto(pc, sec, idx + 1, 0, FALSE)
         ELSE Goto(pc, sec, idx, 1, FALSE)

\* One `if issue_dict.get(...): improved = llm_call(...); _append_if_changed(...)`
FlagCheck(chk) ==
    IF AnyFlag(CurIssues.v[idx], chk.flags)
    THEN \E r \in llm_client :
            LlmStep(SECTIONS[sec].label, chk.label, idx, Original(CurItems, idx),
                    Original(CurItems, idx), chk.instr, r)
    ELSE NoCall

\* Mutant of AfterCheck: the checks chained as elif, the first call ends the item
AfterCheckElif(n) ==
    IF slot < n /\ calls' = calls
    THEN Goto(pc, sec, idx, slot + 1, FALSE)
    ELSE Goto(pc, sec, idx + 1, 0, FALSE)

\* After flag check `slot` of n: the next check, or the next index
AfterCheck(n) ==
    IF slot < n
    THEN Goto(pc, sec, idx, slot + 1, FALSE)
    ELSE Goto(pc, sec, idx + 1, 0, FALSE)

\* _process_experience_like, lines 118-126
ExperienceLoop ==
    /\ pc = "exp"
    /\ slot = 0
    /\ IF ~IsList(CurIssues) THEN Leave ELSE ItemLoop
    /\ NoCall
    /\ UNCHANGED invoked
    /\ Fixed

\* _process_experience_like, lines 129-147
ExperienceCheck ==
    /\ pc = "exp"
    /\ slot \in 1..Len(EXP_CHECKS)
    /\ FlagCheck(EXP_CHECKS[slot])
    /\ AfterCheck(Len(EXP_CHECKS))
    /\ UNCHANGED invoked
    /\ Fixed

\* _process_education, lines 205-211
EducationLoop ==
    /\ pc = "edu"
    /\ slot = 0
    /\ IsList(CurIssues)
    /\ ItemLoop
    /\ NoCall
    /\ UNCHANGED invoked
    /\ Fixed

\* _process_education, lines 214-234
EducationCheck ==
    /\ pc = "edu"
    /\ slot \in 1..Len(EDU_CHECKS)
    /\ FlagCheck(EDU_CHECKS[slot])
    /\ AfterCheck(Len(EDU_CHECKS))
    /\ UNCHANGED invoked
    /\ Fixed

\* Mutant of BlockCall: the call is made on an empty block too
BlockCallUnchecked(instr, label) ==
    \E r \in llm_client :
        LlmStep(SECTIONS[sec].label, label, 0, Block(CurItems), Block(CurItems), instr, r)

\* A section-level call on the joined items: lines 189-192, 238-244
BlockCall(instr, label) ==
    IF Block(CurItems) # <<>>
    THEN \E r \in llm_client :
            LlmStep(SECTIONS[sec].label, label, 0, Block(CurItems),
                    Block(CurItems), instr, r)
    ELSE NoCall

\* _process_education, lines 236-244
EducationBlock ==
    /\ pc = "edu"
    /\ slot = 0
    /\ ~IsList(CurIssues)
    /\ IF IsDict(CurIssues) /\ AnyFlag(CurIssues, {"too_generic", "too_long"})
       THEN BlockCall(EDU_BLOCK_INSTR, "Section needs standardization")
       ELSE NoCall
    /\ Leave
    /\ UNCHANGED invoked
    /\ Fixed

\* _process_simple_list_section, lines 163-169
SimpleLoop ==
    /\ pc = "simple"
    /\ slot = 0
    /\ IsList(CurIssues)
    /\ ItemLoop
    /\ NoCall
    /\ UNCHANGED invoked
    /\ Fixed

\* _process_simple_list_section, lines 172-181
SimpleCheck ==
    /\ pc = "simple"
    /\ slot \in 1..2
    /\ FlagCheck(SIMPLE_CHECKS(SECTIONS[sec].generic)[slot])
    /\ Goto(pc, sec, idx, slot + 1,
            applied \/ AnyFlag(CurIssues.v[idx],
                               SIMPLE_CHECKS(SECTIONS[sec].generic)[slot].flags))
    /\ UNCHANGED invoked
    /\ Fixed

\* Mutant of Fallback: `applied` is not tested
FallbackAlways(was_applied, issue_dict) == Truthy(issue_dict)

\* Line 183: `if not applied and issue_dict`
Fallback(was_applied, issue_dict) == ~was_applied /\ Truthy(issue_dict)

\* _process_simple_list_section, lines 183-185
SimpleFallback ==
    /\ pc = "simple"
    /\ slot = 3
    /\ IF Fallback(applied, CurIssues.v[idx])
       THEN \E r \in llm_client :
               LlmStep(SECTIONS[sec].label, "Improve phrasing", idx,
                       Original(CurItems, idx), Original(CurItems, idx),
                       SECTIONS[sec].generic, r)
       ELSE NoCall
    /\ Goto(pc, sec, idx + 1, 0, FALSE)
    /\ UNCHANGED invoked
    /\ Fixed

\* _process_simple_list_section, lines 188-192
SimpleBlock ==
    /\ pc = "simple"
    /\ slot = 0
    /\ ~IsList(CurIssues)
    /\ IF /\ IsDict(CurIssues)
          /\ AnyFlag(CurIssues, {"too_generic", "too_long", "missing_impact"})
       THEN BlockCall(SECTIONS[sec].generic, "Section too generic")
       ELSE NoCall
    /\ Leave
    /\ UNCHANGED invoked
    /\ Fixed

-----------------------------------------------------------------------------
(* Skills and summary *)

SKILL_GROUPS == <<"technical", "tools", "languages", "frameworks", "soft">>

\* Lines 253-256 from position i of the group keys
RECURSIVE SkillsOfGroups(_, _)
SkillsOfGroups(skills, i) ==
    IF i > Len(SKILL_GROUPS) THEN <<>>
    ELSE (IF IsList(Get(skills, SKILL_GROUPS[i]))
          THEN StrElems(Get(skills, SKILL_GROUPS[i]).v)
          ELSE <<>>)
         \o SkillsOfGroups(skills, i + 1)

\* _get_skills_text
get_skills_text(resume) ==
    LET skills == Get(resume, "skills")
    IN  Join(COMMA_SEP,
             CASE IsList(skills) -> StrElems(skills.v)
               [] IsDict(skills) -> SkillsOfGroups(skills, 1)
               [] OTHER -> <<>>)

\* Line 271: the issue label of the skills suggestion
SkillsIssue(issues) ==
    IF Truthy(Get(issues, "too_generic"))
    THEN "Skills too generic"
    ELSE "Missing proficiency levels"

\* _process_skills, lines 265-275
ProcessSkills ==
    /\ pc = "skills"
    /\ IF /\ get_skills_text(resume_text) # <<>>
          /\ IsDict(CurIssues)
          /\ AnyFlag(CurIssues, {"too_generic", "missing_proficiency"})
       THEN \E r \in llm_client :
               LlmStep("skills", SkillsIssue(CurIssues), 0,
                       get_skills_text(resume_text), get_skills_text(resume_text),
                       SKILLS_INSTR, r)
       ELSE NoCall
    /\ Leave
    /\ UNCHANGED invoked
    /\ Fixed

\* Line 283: the summary text, "" unless the field is a string
SummaryOriginal(resume) ==
    IF IsStr(Get(resume, "summary")) THEN Get(resume, "summary").v ELSE <<>>

\* _process_summary, lines 283-287
SummaryHead ==
    /\ pc = "summary"
    /\ slot = 0
    /\ IF SummaryOriginal(resume_text) = <<>> \/ ~IsDict(CurIssues)
       THEN Leave
       ELSE Goto(pc, sec, idx, 1, FALSE)
    /\ NoCall
    /\ UNCHANGED invoked
    /\ Fixed

\* _process_summary, lines 288-298
SummaryCheck ==
    /\ pc = "summary"
    /\ slot \in 1..Len(SUMMARY_CHECKS)
    /\ IF AnyFlag(CurIssues, SUMMARY_CHECKS[slot].flags)
       THEN \E r \in llm_client :
               LlmStep("summary", SUMMARY_CHECKS[slot].label, 0,
                       SummaryOriginal(resume_text), SummaryOriginal(resume_text),
                       SUMMARY_CHECKS[slot].instr, r)
       ELSE NoCall
    /\ IF slot < Len(SUMMARY_CHECKS) THEN Goto(pc, sec, idx, slot + 1, FALSE) ELSE Leave
    /\ UNCHANGED invoked
    /\ Fixed

-----------------------------------------------------------------------------
(* Runs of the pure functions on their own *)

Unset == [t |-> "unset", v |-> 0]

\* flat = _combine_entry_text(entry)
Flatten ==
    /\ pc = "flatten"
    /\ flat' = StrV(combine_entry_text(entry))
    /\ pc' = "done"
    /\ UNCHANGED <<llm_client, analysis, resume_text, suggestions, sec, idx, slot,
                   applied, calls, invoked, entry, keys, got_items, got_issues>>

\* got_items = _get_items(resume_text, keys)
GetItems ==
    /\ pc = "resolve"
    /\ got_items = Unset
    /\ got_items' = ListV(get_items(resume_text, keys))
    /\ pc' = IF got_issues = Unset THEN pc ELSE "done"
    /\ UNCHANGED <<llm_client, analysis, resume_text, suggestions, sec, idx, slot,
                   applied, calls, invoked, entry, flat, keys, got_issues>>

\* got_issues = _get_section_issues(analysis, keys)
GetSectionIssues ==
    /\ pc = "resolve"
    /\ got_issues = Unset
    /\ got_issues' = get_section_issues(analysis, keys)
    /\ pc' = IF got_items = Unset THEN pc ELSE "done"
    /\ UNCHANGED <<llm_client, analysis, resume_text, suggestions, sec, idx, slot,
                   applied, calls, invoked, entry, flat, keys, got_items>>

-----------------------------------------------------------------------------
(* The inputs the runs are started on *)

MaxItems == 2       \* longest item list of the generated documents
MaxIssues == 2      \* longest per-item issue list of the generated analyses

SeqsUpTo(S, n) == UNION {[1..k -> S] : k \in 0..n}

Range(f) == {f[i] : i \in DOMAIN f}

TA == <<"a">>
TB == <<"b">>
TNew == <<"n">>

\* Oracles: every kind of answer / an answer or none / always an answer
ORACLE_ALL == {NoneV, StrV(<<>>), StrV(<<" ">>), StrV(<<" ", "A">>), StrV(TB)}
ORACLE_BIN == {NoneV, StrV(TNew)}
ORACLE_ONE == {StrV(TNew)}

\* The mapping {name: True, ...} over the names of the sequence fs
Flags(fs) == DictV([i \in 1..Len(fs) |-> <<fs[i], BoolV(TRUE)>>])

\* The pairs <<name, f[name]>> for the names of `order` that f maps
RECURSIVE FlagPairs(_, _)
FlagPairs(order, f) ==
    IF order = <<>> THEN <<>>
    ELSE (IF Head(order) \in DOMAIN f
          THEN << <<Head(order), BoolV(f[Head(order)])>> >>
          ELSE <<>>)
         \o FlagPairs(Tail(order), f)

\* Every flag-mapping over some of the names of `order`, with values in vals
FlagDicts(order, vals) ==
    {DictV(FlagPairs(order, f)) :
        f \in UNION {[D -> vals] : D \in SUBSET Range(order)}}

\* A document (or analysis) that holds, besides a name, the one key k
NAME_FIELD == <<"name", StrV(<<"N">>)>>
Doc1(k, val) == DictV(<<NAME_FIELD, <<k, val>>>>)
Doc2(k1, v1, k2, v2) == DictV(<<NAME_FIELD, <<k1, v1>>, <<k2, v2>>>>)

DescB == DictV(<< <<"description", StrV(<<" ", "b", " ">>)>> >>)

\* Generated item lists and issue data, for one handler of each kind
ItemMenu == {StrV(<<>>), StrV(TA), DescB}
EntryMenu == {StrV(TA), Flags(<<"too_long">>), Flags(<<"too_generic", "too_wordy">>)}
ItemsVals == {StrV(TA)} \cup {ListV(xs) : xs \in SeqsUpTo(ItemMenu, MaxItems)}
IssuesVals ==
    {NoneV, DictV(<<>>), Flags(<<"too_generic">>)}
    \cup {ListV(es) : es \in SeqsUpTo(EntryMenu, MaxIssues)}

GenInputs ==
    {<<Doc1(SECTIONS[s].keys[1], sv), Doc1(SECTIONS[s].keys[1], iv), ORACLE_ONE>> :
        s \in {1, 3, 4}, iv \in ItemsVals, sv \in IssuesVals}

\* Empty and absent arguments
EmptyInputs ==
    {<<an, doc, ORACLE_BIN>> :
        an \in {NoneV, DictV(<<>>), Doc1("summary", Flags(<<"too_generic">>))},
        doc \in {NoneV, DictV(<<>>), Doc1("summary", StrV(TA))}}

\* Every kind of oracle answer, against originals that differ in case and blanks
FilterInputs ==
    {<<Doc1("summary", Flags(<<"too_generic", "too_long">>)), Doc1("summary", StrV(t)),
       ORACLE_ALL>> :
        t \in {TA, <<"A", " ">>, <<" ">>, TB}}
    \cup {<<Doc1("experience", ListV(<<Flags(<<"no_metrics", "too_long">>)>>)),
            Doc1("experience", ListV(<<it>>)), ORACLE_ALL>> :
        it \in {DescB, IntV(1), ListV(<<StrV(TA), StrV(TB)>>)}}

\* One flagged item, every flag-mapping of the handler
EXP_FLAGS == <<"no_metrics", "missing_metrics", "weak_action_verbs",
               "responsibility_over_achievement", "too_wordy", "too_long",
               "missing_keywords", "unknown">>
SIMPLE_FLAGS == <<"too_generic", "missing_impact", "too_wordy", "too_long", "unknown">>
EDU_FLAGS == <<"too_generic", "missing_dates", "missing_gpa", "too_wordy", "too_long",
               "unknown">>

FlagInputs ==
    {<<Doc1("internships", ListV(<<d>>)), Doc1("internships", ListV(<<StrV(TA)>>)),
       ORACLE_BIN>> : d \in FlagDicts(EXP_FLAGS, {TRUE})}
    \cup {<<Doc1("experience", ListV(<<d>>)), Doc1("experience", ListV(<<StrV(TA)>>)),
            ORACLE_BIN>> :
        d \in FlagDicts(<<"no_metrics", "missing_metrics", "too_long">>, {TRUE, FALSE})}
    \cup {<<Doc1("awards", ListV(<<d>>)), Doc1("awards", ListV(<<StrV(TA)>>)),
            ORACLE_BIN>> : d \in FlagDicts(SIMPLE_FLAGS, {TRUE, FALSE})}
    \cup {<<Doc1("education", ListV(<<d>>)), Doc1("education", ListV(<<StrV(TA)>>)),
            ORACLE_BIN>> : d \in FlagDicts(EDU_FLAGS, {TRUE})}

\* Skills and summary in their shapes
SkillsVals ==
    {ListV(<<StrV(TA), IntV(1), StrV(TB)>>), ListV(<<>>), ListV(<<IntV(1)>>),
     DictV(<< <<"tools", ListV(<<StrV(TA)>>)>>, <<"technical", ListV(<<StrV(TB), IntV(1)>>)>> >>),
     DictV(<< <<"other", ListV(<<StrV(TA)>>)>>, <<"soft", StrV(TA)>> >>),
     StrV(TA), NoneV}
SkillsIssues ==
    FlagDicts(<<"too_generic", "missing_proficiency">>, {TRUE, FALSE})
    \cup {NoneV, ListV(<<Flags(<<"too_generic">>)>>)}
SummaryVals == {StrV(TA), StrV(<<>>), ListV(<<StrV(TA)>>), NoneV}
SummaryIssues ==
    FlagDicts(<<"too_generic", "too_long", "missing_keywords">>, {TRUE})
    \cup {NoneV, ListV(<<Flags(<<"too_generic">>)>>)}

ScalarInputs ==
    {<<Doc1("skills", sv), Doc1("skills", x), ORACLE_BIN>> :
        x \in SkillsVals, sv \in SkillsIssues}
    \cup {<<Doc1(k, sv), Doc2("objective", StrV(TB), "summary", x), ORACLE_BIN>> :
        k \in Range(SUMMARY_KEYS), x \in SummaryVals, sv \in SummaryIssues}
    \cup {<<Doc1("skills", Flags(<<"too_generic">>)), DictV(<<NAME_FIELD>>), ORACLE_BIN>>,
          <<Doc1("summary", Flags(<<"too_generic">>)), DictV(<<NAME_FIELD>>), ORACLE_BIN>>}

\* Every section populated: two items each, every known flag set on each
AllFlags(order) == Flags(SubSeq(order, 1, Len(order) - 1))
TwoItems == ListV(<<StrV(TA), StrV(TB)>>)
FullResume ==
    DictV([i \in 1..7 |-> <<SECTIONS[i].keys[1], TwoItems>>]
          \o << <<"skills", ListV(<<StrV(TA), StrV(TB)>>)>>, <<"summary", StrV(TA)>> >>)
FullAnalysis ==
    DictV([i \in 1..7 |->
              <<SECTIONS[i].keys[1],
                LET d == CASE SECTIONS[i].kind = "exp" -> AllFlags(EXP_FLAGS)
                           [] SECTIONS[i].kind = "edu" -> AllFlags(EDU_FLAGS)
                           [] OTHER -> AllFlags(SIMPLE_FLAGS)
                IN  ListV(<<d, d>>)>>]
          \o << <<"skills", Flags(<<"too_generic">>)>>,
                <<"summary", Flags(<<"too_generic", "too_long", "missing_keywords">>)>> >>)

OrderInputs ==
    {<<FullAnalysis, FullResume, ORACLE_ONE>>,
     <<Doc2("experience", ListV(<<Flags(<<"no_metrics", "missing_keywords">>),
                                  Flags(<<"weak_action_verbs">>)>>),
            "awards", ListV(<<Flags(<<"too_generic", "too_wordy">>),
                              Flags(<<"unknown">>)>>)),
       Doc2("awards", TwoItems, "experience", TwoItems), ORACLE_BIN>>,
     <<Doc2("summary", Flags(<<"too_long">>), "education", Flags(<<"too_generic">>)),
       Doc2("education", TwoItems, "summary", StrV(TA)), ORACLE_BIN>>}

\* Several aliases of one section at once
AliasInputs ==
    {<<DictV(<<NAME_FIELD>> \o a2 \o a1), DictV(<<NAME_FIELD>> \o r2 \o r1), ORACLE_BIN>> :
        r1 \in {<<>>, << <<"experience", StrV(TA)>> >>,
                << <<"experience", ListV(<<StrV(TA)>>)>> >>},
        r2 \in {<<>>, << <<"work_experience", ListV(<<StrV(TB)>>)>> >>},
        a1 \in {<<>>, << <<"experience", NoneV>> >>,
                << <<"experience", ListV(<<Flags(<<"no_metrics">>)>>)>> >>},
        a2 \in {<<>>, << <<"work_experience", ListV(<<Flags(<<"too_long">>)>>)>> >>}}

\* Skipped indexes followed by further indexes and sections
SkipInputs ==
    {<<Doc2("experience", ListV(<<StrV(TA), Flags(<<"too_long">>), Flags(<<"too_long">>),
                                  Flags(<<"no_metrics">>)>>),
            "summary", Flags(<<"too_long">>)),
       Doc2("summary", StrV(TB), "experience", ListV(<<StrV(TA), IntV(1), StrV(TB)>>)),
       ORACLE_BIN>>,
     <<Doc2("awards", ListV(<<Flags(<<"too_wordy">>), NoneV, Flags(<<"too_wordy">>)>>),
            "skills", Flags(<<"missing_proficiency">>)),
       Doc2("skills", ListV(<<StrV(TA)>>), "awards", ListV(<<DictV(<<>>), StrV(TA)>>)),
       ORACLE_BIN>>,
     <<Doc2("education", ListV(<<Flags(<<"too_generic">>)>>),
            "summary", Flags(<<"too_generic">>)),
       Doc2("education", StrV(TA), "summary", StrV(TA)), ORACLE_BIN>>}

Inputs ==
    GenInputs \cup EmptyInputs \cup FilterInputs \cup FlagInputs \cup ScalarInputs
    \cup OrderInputs \cup AliasInputs \cup SkipInputs

-----------------------------------------------------------------------------
(* The specification of a run of generate_resume_improvements *)

Init ==
    /\ \E inp \in Inputs :
          /\ analysis = inp[1]
          /\ resume_text = inp[2]
          /\ llm_client = inp[3]
    /\ suggestions = <<>>
    /\ pc = "enter"
    /\ sec = 1
    /\ idx = 1
    /\ slot = 0
    /\ applied = FALSE
    /\ calls = <<>>
    /\ invoked = {}
    /\ entry = Unset
    /\ flat = Unset
    /\ keys = <<>>
    /\ got_items = Unset
    /\ got_issues = Unset

Next ==
    \/ Enter
    \/ DispatchList
    \/ DispatchSkills
    \/ DispatchSummary
    \/ Return
    \/ ExperienceLoop
    \/ ExperienceCheck
    \/ EducationLoop
    \/ EducationCheck
    \/ EducationBlock
    \/ SimpleLoop
    \/ SimpleCheck
    \/ SimpleFallback
    \/ SimpleBlock
    \/ ProcessSkills
    \/ SummaryHead
    \/ SummaryCheck

Spec == Init /\ [][Next]_vars

-----------------------------------------------------------------------------
(* The specification of a call of _combine_entry_text *)

MaxElems == 2       \* longest list-shaped entry

\* The pairs <<order[i], f[i]>> of the fields that f gives a value
RECURSIVE FieldPairs(_, _, _)
FieldPairs(order, f, i) ==
    IF i > Len(order) THEN <<>>
    ELSE (IF f[i] = Unset THEN <<>> ELSE << <<order[i], f[i]>> >>)
         \o FieldPairs(order, f, i + 1)

\* Mapping entries: the fields in this insertion order, each absent or holding
\* one of its values
FIELD_ORDER == <<"title", "bullets", "text", "description", "tags", "line">>
FIELD_VALUES == <<
    {Unset, StrV(<<"A">>), StrV(<<" ">>), IntV(1)},
    {Unset, ListV(<<>>), ListV(<<StrV(TA), IntV(1), StrV(TB)>>), ListV(<<IntV(1)>>),
     StrV(TA), TupleV(<<StrV(TA)>>)},
    {Unset, StrV(TA)},
    {Unset, StrV(<<" ", "b", " ">>), StrV(<<" ">>), ListV(<<StrV(TB)>>)},
    {Unset, ListV(<<StrV(TB), StrV(<<" ">>), IntV(1)>>), TupleV(<<StrV(TA)>>)},
    {Unset, StrV(<<"A">>)} >>

DictEntries ==
    {DictV(FieldPairs(FIELD_ORDER, f, 1)) :
        f \in {g \in [1..Len(FIELD_ORDER) -> UNION Range(FIELD_VALUES)] :
                  \A i \in 1..Len(FIELD_ORDER) : g[i] \in FIELD_VALUES[i]}}

Entries ==
    {NoneV, IntV(1), BoolV(TRUE), StrV(<<>>), StrV(<<" ", "a", " ">>), TupleV(<<StrV(TA)>>)}
    \cup {ListV(xs) : xs \in SeqsUpTo({StrV(TA), StrV(<<>>), IntV(1)}, MaxElems)}
    \cup DictEntries

Idle ==
    /\ llm_client = {}
    /\ suggestions = <<>>
    /\ sec = 1
    /\ idx = 1
    /\ slot = 0
    /\ applied = FALSE
    /\ calls = <<>>
    /\ invoked = {}

InitFlatten ==
    /\ Idle
    /\ analysis = NoneV
    /\ resume_text = NoneV
    /\ pc = "flatten"
    /\ entry \in Entries
    /\ flat = Unset
    /\ keys = <<>>
    /\ got_items = Unset
    /\ got_issues = Unset

NextFlatten == Flatten

SpecFlatten == InitFlatten /\ [][NextFlatten]_vars

-----------------------------------------------------------------------------
(* The specification of calls of _get_items and _get_section_issues *)

KEY_LISTS == {EXPERIENCE_KEYS, INTERNSHIP_KEYS, EDUCATION_KEYS, AWARDS_KEYS, POR_KEYS,
              CO_CURR_KEYS, EXTRA_CURR_KEYS, SKILLS_KEYS, SUMMARY_KEYS}

\* What a document holds under the alias at position i: nothing, None, a
\* number, an empty list, a list, a mapping; the position shows in the value
AliasValue(kind, i) ==
    CASE kind = "none" -> NoneV
      [] kind = "int" -> IntV(i)
      [] kind = "empty" -> ListV(<<>>)
      [] kind = "list" -> ListV(<<IntV(i)>>)
      [] OTHER -> DictV(<< <<"n", IntV(i)>> >>)

\* The pairs of a document over the aliases ks, the last alias first
RECURSIVE AliasPairs(_, _, _)
AliasPairs(ks, f, i) ==
    IF i = 0 THEN <<>>
    ELSE (IF f[i] = "absent" THEN <<>> ELSE << <<ks[i], AliasValue(f[i], i)>> >>)
         \o AliasPairs(ks, f, i - 1)

AliasDocs(ks) ==
    {DictV(AliasPairs(ks, f, Len(ks))) :
        f \in [1..Len(ks) -> {"absent", "none", "int", "empty", "list", "dict"}]}

InitResolve ==
    /\ Idle
    /\ keys \in KEY_LISTS
    /\ resume_text \in AliasDocs(keys)
    /\ analysis = resume_text
    /\ pc = "resolve"
    /\ entry = Unset
    /\ flat = Unset
    /\ got_items = Unset
    /\ got_issues = Unset

NextResolve == GetItems \/ GetSectionIssues

SpecResolve == InitResolve /\ [][NextResolve]_vars

-----------------------------------------------------------------------------
(* What the claims are stated with *)

\* trim + lowercase
Norm(s) == Lower(Strip(s))

\* The filter's rule as the specification words it, for the answer r to a call
\* on the text o
PassesFilter(o, r) ==
    /\ Truthy(r)
    /\ Norm(r.v) # <<>>
    /\ Norm(r.v) # Norm(o)

\* The number of calls among the first k whose answer passes the filter
RECURSIVE NPassed(_)
NPassed(k) ==
    IF k = 0 THEN 0
    ELSE NPassed(k - 1)
         + (IF PassesFilter(calls[k].text, calls[k].result) THEN 1 ELSE 0)

Passed(k) == PassesFilter(calls[k].text, calls[k].result)

\* The section order of the specification
SECTION_ORDER == <<"experience", "internships", "education", "awards_achievements",
                   "positions_of_responsibility", "co_curricular", "extra_curricular",
                   "skills", "summary">>

\* The position of x in the sequence order (0: not in it)
Rank(order, x) ==
    IF \E i \in 1..Len(order) : order[i] = x
    THEN CHOOSE i \in 1..Len(order) : order[i] = x
    ELSE 0

-----------------------------------------------------------------------------
\* C1: a suggestion is appended for an oracle call exactly when the answer is
\* truthy, its trimmed lowercase form is not empty and differs from the trimmed
\* lowercase original; the suggestion carries the original and the answer as
\* they are. So every suggestion has a non-empty improved_text whose normal
\* form differs from that of its original_text.
C1_FilterIff ==
    /\ Len(suggestions) = NPassed(Len(calls))
    /\ \A k \in 1..Len(calls) :
          Passed(k) =>
             /\ suggestions[NPassed(k)].original_text = calls[k].text
             /\ suggestions[NPassed(k)].improved_text = calls[k].result.v
    /\ \A i \in 1..Len(suggestions) :
          /\ suggestions[i].improved_text # <<>>
          /\ Norm(suggestions[i].improved_text) # Norm(suggestions[i].original_text)

\* A finished run in which one answer was dropped for differing from the
\* original in case and blanks only, and another was kept
C1_Witness ==
    /\ pc = "done"
    /\ Len(suggestions) = 1
    /\ \E k \in 1..Len(calls) :
          /\ calls[k].result.t = "str"
          /\ calls[k].result.v # calls[k].text
          /\ Norm(calls[k].result.v) = Norm(calls[k].text)
          /\ Norm(calls[k].text) # <<>>

\* C2: with an empty or absent analysis or document the run returns the empty
\* list at once: no section block runs and no oracle call is made.
C2_EmptyInputs ==
    (~Truthy(analysis) \/ ~Truthy(resume_text)) =>
        /\ pc \in {"enter", "done"}
        /\ suggestions = <<>>
        /\ calls = <<>>
        /\ invoked = {}

\* A finished run on an empty document with a flagged analysis
C2_Witness ==
    /\ pc = "done"
    /\ resume_text = DictV(<<>>)
    /\ Truthy(analysis)

\* The calls whose answer passes the filter, in order
PassedCalls == SelectSeq(calls, LAMBDA c : PassesFilter(c.text, c.result))

\* The issue labels of each handler in the order of its flag checks
EXP_LABELS == <<"No measurable impact", "Weak action verbs", "Not achievement-oriented",
                "Too wordy", "Missing keywords">>
EDU_LABELS == <<"Too generic", "Missing dates", "GPA/CGPA formatting", "Too wordy">>
SIMPLE_LABELS == <<"Too generic", "Too wordy", "Improve phrasing">>
SUMMARY_LABELS == <<"Summary too generic", "Summary too long", "Missing keywords">>

LabelRank(section, issue) ==
    CASE section \in {"experience", "internships"} -> Rank(EXP_LABELS, issue)
      [] section = "education" -> Rank(EDU_LABELS, issue)
      [] section = "summary" -> Rank(SUMMARY_LABELS, issue)
      [] section = "skills" -> 1
      [] OTHER -> Rank(SIMPLE_LABELS, issue)

\* C3: the suggestions are grouped by section in the order experience,
\* internships, education, awards_achievements, positions_of_responsibility,
\* co_curricular, extra_curricular, skills, summary; within a section they follow
\* the item index, and within an item the handler's order of flag checks.
C3_Order ==
    LET org == PassedCalls
        \* suggestion i comes before suggestion j in the order claimed
        Before(i, j) ==
            LET a == suggestions[i]
                b == suggestions[j]
                ra == Rank(SECTION_ORDER, a.section)
                rb == Rank(SECTION_ORDER, b.section)
            IN  \/ ra < rb
                \/ /\ ra = rb
                   /\ org[i].idx < org[j].idx
                \/ /\ ra = rb
                   /\ org[i].idx = org[j].idx
                   /\ LabelRank(a.section, a.issue) < LabelRank(b.section, b.issue)
    IN  /\ Len(org) = Len(suggestions)
        /\ \A i \in 1..Len(suggestions) :
              /\ Rank(SECTION_ORDER, suggestions[i].section) = org[i].sec
              /\ suggestions[i].issue = org[i].issue
              /\ org[i].idx > 0 =>
                    LabelRank(suggestions[i].section, suggestions[i].issue) > 0
        \* the order is transitive: it holds of all pairs when of the adjacent ones
        /\ \A i \in 1..(Len(suggestions) - 1) : Before(i, i + 1)

\* A finished run over nine populated sections of two items each, every flag
\* set and every answer kept
C3_Witness ==
    /\ pc = "done"
    /\ Len(suggestions) = 48
    /\ {suggestions[i].section : i \in 1..Len(suggestions)} = Range(SECTION_ORDER)

\* The sections that had their handler called or an oracle call made
Active == invoked \cup {calls[k].sec : k \in 1..Len(calls)}

\* C4 as claimed: each of the nine handlers, skills and summary included, runs
\* only when the item lookup over the section's aliases gave a non-empty list
\* and the issue lookup a value other than None; otherwise no oracle call is
\* made for the section.
C4_Original ==
    \A s \in Active :
        /\ get_items(resume_text, SECTIONS[s].keys) # <<>>
        /\ get_section_issues(analysis, SECTIONS[s].keys) # NoneV

\* C4 as the code has it: that holds of the seven list-shaped sections; the
\* skills and summary handlers run whenever the issue lookup gave a value other
\* than None, with no item lookup, and call the oracle only on a non-empty text
\* taken from the document's skills, respectively summary, field.
C4_Dispatch ==
    /\ \A s \in Active :
          /\ get_section_issues(analysis, SECTIONS[s].keys) # NoneV
          /\ s <= 7 => get_items(resume_text, SECTIONS[s].keys) # <<>>
    /\ \A k \in 1..Len(calls) :
          /\ calls[k].sec = 8 => get_skills_text(resume_text) # <<>>
          /\ calls[k].sec = 9 =>
                /\ IsStr(Get(resume_text, "summary"))
                /\ Get(resume_text, "summary").v # <<>>

\* A finished run in which education, flagged but without an item list, was
\* passed over and the summary, a string, was rewritten
C4_Witness ==
    /\ pc = "done"
    /\ invoked = {9}
    /\ calls # <<>>
    /\ get_items(resume_text, EDUCATION_KEYS) = <<>>
    /\ get_section_issues(analysis, EDUCATION_KEYS) # NoneV
    /\ get_items(resume_text, SUMMARY_KEYS) = <<>>

\* The flattened original of the call site of call k
SiteText(k) ==
    LET items == get_items(resume_text, SECTIONS[calls[k].sec].keys)
    IN  CASE calls[k].sec = 8 -> get_skills_text(resume_text)
          [] calls[k].sec = 9 -> Get(resume_text, "summary").v
          [] calls[k].idx = 0 ->
                Join(BULLET_SEP, [i \in 1..Len(items) |-> combine_entry_text(items[i])])
          [] OTHER -> combine_entry_text(items[calls[k].idx])

\* C5: every oracle call is given a non-empty text, the flattened original of
\* its call site, and a suggestion made from the call has that text as its
\* original_text.
C5_CallText ==
    \A k \in 1..Len(calls) :
        /\ calls[k].text # <<>>
        /\ calls[k].sec <= 7 /\ calls[k].idx > 0 =>
              calls[k].idx <= Len(get_items(resume_text, SECTIONS[calls[k].sec].keys))
        /\ calls[k].text = SiteText(k)
        /\ Passed(k) => suggestions[NPassed(k)].original_text = calls[k].text

\* A finished run with a section-level call on joined items and a summary call,
\* both kept
C5_Witness ==
    /\ pc = "done"
    /\ Len(suggestions) = 2
    /\ \E k \in 1..Len(calls) : calls[k].sec = 3 /\ calls[k].idx = 0 /\ Len(calls[k].text) > 1
    /\ \E k \in 1..Len(calls) : calls[k].sec = 9

\* What a per-item handler was given for section s
ItemsOf(s) == get_items(resume_text, SECTIONS[s].keys)
IssuesOf(s) == get_section_issues(analysis, SECTIONS[s].keys)

\* Index i of the issue list of section s has a flag-mapping and an item that
\* flattens to a non-empty text
Usable(s, i) ==
    /\ IsList(IssuesOf(s))
    /\ i \in 1..Len(IssuesOf(s).v)
    /\ i <= Len(ItemsOf(s))
    /\ IsDict(IssuesOf(s).v[i])
    /\ combine_entry_text(ItemsOf(s)[i]) # <<>>

\* The calls made for index i of section s, in order
CallsOf(s, i) == SelectSeq(calls, LAMBDA c : c.sec = s /\ c.idx = i)

\* The list-shaped sections of the given kinds whose handler ran on a list of
\* per-item issues
ListRuns(kinds) ==
    {s \in invoked : s <= 7 /\ SECTIONS[s].kind \in kinds /\ IsList(IssuesOf(s))}

\* The five flag groups of an experience-like item and their issue labels
EXP_GROUPS == <<
    [flags |-> {"no_metrics", "missing_metrics"}, label |-> "No measurable impact"],
    [flags |-> {"weak_action_verbs"}, label |-> "Weak action verbs"],
    [flags |-> {"responsibility_over_achievement"}, label |-> "Not achievement-oriented"],
    [flags |-> {"too_wordy", "too_long"}, label |-> "Too wordy"],
    [flags |-> {"missing_keywords"}, label |-> "Missing keywords"] >>

\* The groups with a truthy flag in the mapping d, in order
TruthyGroups(d) ==
    SelectSeq(EXP_GROUPS, LAMBDA g : \E f \in g.flags : Truthy(Get(d, f)))

\* C6: for an experience-like item with a non-empty flattened text and a
\* flag-mapping, the handler makes one oracle call for each of the five flag
\* groups with a truthy flag and no other call, whatever became of the earlier
\* calls; when every answer passes the filter there is one suggestion per such
\* group, with the group's label, all with the same original_text.
C6_ExperienceFlags ==
    pc = "done" =>
        \A s \in ListRuns({"exp"}) :
            \A i \in 1..Len(IssuesOf(s).v) :
                Usable(s, i) =>
                    LET cs == CallsOf(s, i)
                        gs == TruthyGroups(IssuesOf(s).v[i])
                        \* the suggestions made from the calls of this item
                        at == SelectSeq([n \in 1..Len(suggestions) |-> n],
                                        LAMBDA n : /\ PassedCalls[n].sec = s
                                                   /\ PassedCalls[n].idx = i)
                        ss == [k \in 1..Len(at) |-> suggestions[at[k]]]
                    IN  /\ Len(cs) = Len(gs)
                        /\ \A k \in 1..Len(cs) :
                              /\ cs[k].issue = gs[k].label
                              /\ cs[k].text = combine_entry_text(ItemsOf(s)[i])
                        /\ Len(PassedCalls) = Len(suggestions)
                        /\ (\A k \in 1..Len(cs) : PassesFilter(cs[k].text, cs[k].result))
                           => /\ Len(ss) = Len(gs)
                              /\ \A k \in 1..Len(ss) :
                                    /\ ss[k].issue = gs[k].label
                                    /\ ss[k].section = SECTION_ORDER[s]
                                    /\ ss[k].original_text
                                          = combine_entry_text(ItemsOf(s)[i])
                              /\ Cardinality({ss[k].issue : k \in 1..Len(ss)}) = Len(gs)

\* A finished run on an item with several truthy groups whose first answer was
\* dropped and a later one kept
C6_Witness ==
    /\ pc = "done"
    /\ \E s \in ListRuns({"exp"}) :
          /\ Usable(s, 1)
          /\ Len(CallsOf(s, 1)) >= 3
          /\ ~PassesFilter(CallsOf(s, 1)[1].text, CallsOf(s, 1)[1].result)
          /\ PassesFilter(CallsOf(s, 1)[2].text, CallsOf(s, 1)[2].result)
          /\ Len(suggestions) >= 2

\* The number of calls of the sequence cs with the issue label l
NLabel(cs, l) == Len(SelectSeq(cs, LAMBDA c : c.issue = l))

\* C7: in a simple-list section with per-item issues, an item with a non-empty
\* flattened text and a non-empty flag-mapping gets at least one oracle call;
\* the "Improve phrasing" call is made once, exactly when the mapping is
\* non-empty and none of too_generic, missing_impact, too_wordy, too_long is
\* truthy, and never along with a "Too generic" or "Too wordy" call.
C7_SimpleFallback ==
    pc = "done" =>
        \A s \in ListRuns({"simple"}) :
            \A i \in 1..Len(IssuesOf(s).v) :
                Usable(s, i) =>
                    LET cs == CallsOf(s, i)
                        d == IssuesOf(s).v[i]
                        known == \E f \in {"too_generic", "missing_impact",
                                           "too_wordy", "too_long"} : Truthy(Get(d, f))
                    IN  /\ Len(d.v) > 0 => Len(cs) >= 1
                        /\ NLabel(cs, "Improve phrasing")
                              = (IF Len(d.v) > 0 /\ ~known THEN 1 ELSE 0)
                        /\ NLabel(cs, "Improve phrasing") > 0 =>
                              NLabel(cs, "Too generic") + NLabel(cs, "Too wordy") = 0

\* A finished run on an item whose mapping holds only flags that are set to
\* False or unknown, polished and kept under "Improve phrasing"
C7_Witness ==
    /\ pc = "done"
    /\ \E s \in ListRuns({"simple"}) :
          /\ Usable(s, 1)
          /\ HasKey(IssuesOf(s).v[1], "too_generic")
          /\ HasKey(IssuesOf(s).v[1], "unknown")
          /\ NLabel(CallsOf(s, 1), "Improve phrasing") = 1
    /\ Len(suggestions) = 1
    /\ suggestions[1].issue = "Improve phrasing"

\* Whether the mapping d of a handler of the given kind asks for a call
Flagged(kind, d) ==
    CASE kind = "exp" -> Len(TruthyGroups(d)) > 0
      [] kind = "edu" ->
            \E f \in {"too_generic", "missing_dates", "missing_gpa", "too_wordy",
                      "too_long"} : Truthy(Get(d, f))
      [] OTHER -> Len(d.v) > 0

\* The run is at a position from which the code goes on: the guards of the
\* steps, which between them leave no position out
Runnable ==
    \/ pc = "enter"
    \/ pc = "dispatch" /\ sec \in 1..10
    \/ pc = "exp" /\ slot \in 0..5
    \/ pc = "edu" /\ slot \in 0..4
    \/ pc = "simple" /\ slot \in 0..3
    \/ pc = "skills"
    \/ pc = "summary" /\ slot \in 0..3

\* C8: in the per-item handlers an issue index beyond the item list, with an
\* entry that is no mapping, or with an item that flattens to the empty text
\* causes no oracle call and no suggestion, and does not stop the run: the
\* run goes on from every position short of its end, and at the end every
\* usable flagged index of every list-shaped section has had its calls and
\* every section that resolved has had its handler.
C8_Skips ==
    /\ \A k \in 1..Len(calls) :
          calls[k].sec <= 7 /\ calls[k].idx > 0 => Usable(calls[k].sec, calls[k].idx)
    /\ Len(suggestions) <= Len(calls)
    /\ pc # "done" => Runnable
    /\ pc = "done" /\ Truthy(analysis) /\ Truthy(resume_text) =>
          /\ \A s \in 1..7 :
                ItemsOf(s) # <<>> /\ IssuesOf(s) # NoneV => s \in invoked
          /\ \A s \in 8..9 : IssuesOf(s) # NoneV => s \in invoked
          /\ \A s \in ListRuns({"exp", "edu", "simple"}) :
                \A i \in 1..Len(IssuesOf(s).v) :
                    IF Usable(s, i)
                    THEN Flagged(SECTIONS[s].kind, IssuesOf(s).v[i]) =>
                            Len(CallsOf(s, i)) > 0
                    ELSE Len(CallsOf(s, i)) = 0

\* A finished run that skipped an entry that is no mapping, an item that
\* flattens to nothing and an index beyond the items, and still made the
\* calls of the index between them and of the summary
C8_Witness ==
    /\ pc = "done"
    /\ 1 \in ListRuns({"exp"})
    /\ Len(IssuesOf(1).v) = 4
    /\ Len(ItemsOf(1)) = 3
    /\ ~IsDict(IssuesOf(1).v[1])
    /\ IsDict(IssuesOf(1).v[2]) /\ combine_entry_text(ItemsOf(1)[2]) = <<>>
    /\ Len(CallsOf(1, 3)) = 1
    /\ Flagged("exp", IssuesOf(1).v[4])
    /\ \E k \in 1..Len(calls) : calls[k].sec = 9
    /\ Len(suggestions) = 2

\* The positions of the preferred fields that hold a non-blank string
NonBlankFields(d) ==
    {i \in 1..Len(PRIORITY_FIELDS) :
        /\ Get(d, PRIORITY_FIELDS[i]).t = "str"
        /\ Strip(Get(d, PRIORITY_FIELDS[i]).v) # <<>>}

FirstField(d) ==
    Get(d, PRIORITY_FIELDS[CHOOSE i \in NonBlankFields(d) :
                               \A j \in NonBlankFields(d) : i <= j])

\* The strings one field value contributes to the last-resort join
Contribution(val) ==
    CASE val.t = "str" -> <<val.v>>
      [] val.t \in {"list", "tuple"} -> StrElems(val.v)
      [] OTHER -> <<>>

RECURSIVE Collected(_, _)
Collected(d, i) ==
    IF i > Len(d.v) THEN <<>>
    ELSE Contribution(d.v[i][2]) \o Collected(d, i + 1)

\* The last-resort join over the fields of d in iteration order
LastResort(d) == Join(BULLET_SEP, NonBlank(Collected(d, 1)))

\* C9 as claimed: a mapping flattens to the value of the first non-blank string
\* among description, details, summary, line, text; failing that, when bullets
\* holds a list, to the join of that list's strings and nothing else; only when
\* bullets holds no list to the last-resort join. The result is a string.
C9_Original ==
    flat # Unset =>
        /\ flat.t = "str"
        /\ IsDict(entry) =>
              flat.v = (IF NonBlankFields(entry) # {} THEN FirstField(entry).v
                        ELSE IF IsList(Get(entry, "bullets"))
                             THEN Join(BULLET_SEP, StrElems(Get(entry, "bullets").v))
                             ELSE LastResort(entry))

\* C9 as the code has it: the first non-blank preferred field is returned
\* trimmed, and the bullets are joined only when they are a non-empty list: an
\* empty bullets list, like one that is no list, leads to the last-resort join.
C9_Flatten ==
    flat # Unset =>
        /\ flat.t = "str"
        /\ entry.t = "none" => flat.v = <<>>
        /\ IsStr(entry) => flat.v = entry.v
        /\ IsList(entry) => flat.v = Join(BULLET_SEP, StrElems(entry.v))
        /\ IsDict(entry) =>
              flat.v = (IF NonBlankFields(entry) # {} THEN Strip(FirstField(entry).v)
                        ELSE IF /\ IsList(Get(entry, "bullets"))
                                /\ Get(entry, "bullets").v # <<>>
                             THEN Join(BULLET_SEP, StrElems(Get(entry, "bullets").v))
                             ELSE LastResort(entry))

\* A mapping with an empty bullets list and no preferred field, flattened to
\* the join of its other fields
C9_Witness ==
    /\ pc = "done"
    /\ IsDict(entry)
    /\ NonBlankFields(entry) = {}
    /\ HasKey(entry, "bullets")
    /\ Get(entry, "bullets") = ListV(<<>>)
    /\ flat = StrV(<<"A", " ", "*", " ", "b">>)

\* The positions of the aliases that hold a list in the document, and of those
\* that are keys of the analysis
ListAliases == {i \in 1..Len(keys) : Get(resume_text, keys[i]).t = "list"}
KeyAliases == {i \in 1..Len(keys) : HasKey(analysis, keys[i])}

Least(S) == CHOOSE i \in S : \A j \in S : i <= j

\* C10: the item lookup returns the list under the first alias, in the order of
\* the section's alias list, whose value is a list, and the empty list when no
\* alias holds a list; the issue lookup returns as it is the value under the
\* first alias that is a key of the analysis, of whatever type, and None when
\* none is. Nothing of a later alias is merged in or returned instead.
C10_Resolver ==
    /\ got_items # Unset =>
          got_items = (IF ListAliases = {} THEN ListV(<<>>)
                       ELSE Get(resume_text, keys[Least(ListAliases)]))
    /\ got_issues # Unset =>
          got_issues = (IF KeyAliases = {} THEN NoneV
                        ELSE Get(analysis, keys[Least(KeyAliases)]))

\* Both lookups done on a document whose first alias holds None and whose
\* second and third hold different lists
C10_Witness ==
    /\ pc = "done"
    /\ keys = EXPERIENCE_KEYS
    /\ HasKey(resume_text, keys[1])
    /\ Get(resume_text, keys[1]) = NoneV
    /\ got_items = ListV(<<IntV(2)>>)
    /\ Get(resume_text, keys[3]) = ListV(<<IntV(3)>>)
    /\ got_issues = NoneV

\* The positions, in the alias list of section s, of the aliases under which
\* the document holds a list, and of those that are keys of the analysis
ItemAliases(s) ==
    {i \in 1..Len(SECTIONS[s].keys) : Get(resume_text, SECTIONS[s].keys[i]).t = "list"}
IssueAliases(s) ==
    {i \in 1..Len(SECTIONS[s].keys) : HasKey(analysis, SECTIONS[s].keys[i])}

\* C11: whenever the handler of one of the seven list-shaped sections runs, the
\* items and the issues it is handed come from the same alias key: the document
\* key the item list was taken from is the analysis key the flags were taken
\* from, and every call made for the section is made on an item of that key
\* under a flag-mapping of that same key.
C11_SameAlias ==
    /\ \A s \in invoked \cap (1..7) :
          Least(ItemAliases(s)) = Least(IssueAliases(s))
    /\ \A n \in 1..Len(calls) :
          (calls[n].sec \in 1..7 /\ calls[n].idx > 0) =>
             LET ks == SECTIONS[calls[n].sec].keys
                 K == ks[Least(ItemAliases(calls[n].sec))]
             IN /\ HasKey(analysis, K)
                /\ IsList(Get(analysis, K))
                /\ calls[n].idx <= Len(Get(analysis, K).v)
                /\ Get(analysis, K).v[calls[n].idx]
                     = IssuesOf(calls[n].sec).v[calls[n].idx]

=============================================================================
